---------------------------- MODULE Spec2Model ----------------------------
(***************************************************************************)
(* Model of soundmanagerutil.cpp: ChannelGroup, AudioPath and its two      *)
(* concrete classes AudioOutput and AudioInput.                            *)
(*                                                                         *)
(* The classes are immutable values and their methods are pure, so every   *)
(* method is an operator and each specification below draws the arguments  *)
(* of the calls in its initial state and applies the methods in its        *)
(* actions.  SpecConfig is the one state machine: a caller's routing       *)
(* configuration that grows and shrinks under the clash test.              *)
(*                                                                         *)
(* A QString is a sequence of one-character strings.  An unsigned char is  *)
(* a number in 0..255, an unsigned int read from an attribute is a natural *)
(* number that is narrowed modulo 256 where the code passes it to an       *)
(* unsigned char parameter.                                                *)
(***************************************************************************)
EXTENDS Integers, Sequences, FiniteSets, Bags

VARIABLES
    pc,             \* position of the driver of the running specification
    vinylControl,   \* whether the build defines __VINYLCONTROL__
    groupA,         \* ChannelGroup, receiver of clashesWith
    groupB,         \* ChannelGroup, argument of clashesWith
    clashAB,        \* groupA.clashesWith(groupB)
    clashBA,        \* groupB.clashesWith(groupA)
    config,         \* the caller's configuration: a bag of AudioPaths
    request,        \* constructor arguments (direction, type, channelBase, channels, index)
    path,           \* the AudioPath the constructor returned
    element,        \* a QDomElement: tag and attributes
    loaded,         \* the AudioPath fromXML returned
    requestB,       \* constructor arguments of a second AudioPath
    pathB,          \* the second AudioPath
    equalResult,    \* path == pathB
    hashA,          \* path.getHash()
    hashB,          \* pathB.getHash()
    typeString,     \* argument of getTypeFromString
    typeFromString, \* its result
    typeInt,        \* argument of getTypeFromInt
    typeFromInt     \* its result

vars == <<pc, vinylControl, groupA, groupB, clashAB, clashBA, config, request,
          path, element, loaded, requestB, pathB, equalResult, hashA, hashB,
          typeString, typeFromString, typeInt, typeFromInt>>

---------------------------------------------------------------------------
(* Bounds of the model.                                                    *)

\* unsigned char samples are 0..MaxLow and 255-MaxLow..255
MaxLow == 3
\* channel counts drawn for constructor calls are 0..MaxCount (and 255)
MaxCount == 2
\* indexes drawn for constructor calls are 0..MaxIndex (and 255)
MaxIndex == 2
\* the configuration holds at most MaxRoutes routes
MaxRoutes == 3
\* channel bases drawn for the configuration are 0..MaxBase
MaxBase == 3
\* attribute numbers are drawn up to MaxWrap multiples of 256 above a byte
MaxWrap == 2
\* getTypeFromInt is called with -MaxOrdinalSlack .. 7 + MaxOrdinalSlack
MaxOrdinalSlack == 4
\* case variants of a type name toggle the case of one of the first MaxToggle letters
MaxToggle == 3

\* the number of values of an unsigned char
UCharRange == 256

ByteSamples == (0 .. MaxLow) \cup ((UCharRange - 1 - MaxLow) .. (UCharRange - 1))

---------------------------------------------------------------------------
(* AudioPathType.  The enumeration is declared in soundmanagerutil.h; its  *)
(* order puts INVALID last, as the upper bound getTypeFromInt tests.       *)

AudioPathType ==
    <<"MASTER", "HEADPHONES", "BUS", "DECK", "VINYLCONTROL", "MICROPHONE",
      "AUXILLIARY", "INVALID">>

Types == {AudioPathType[i] : i \in 1 .. Len(AudioPathType)}

\* the integer value of an enumerator (the first enumerator is 0)
Ordinal(type) == (CHOOSE i \in 1 .. Len(AudioPathType) : AudioPathType[i] = type) - 1

---------------------------------------------------------------------------
(* ChannelGroup                                                            *)

ChannelGroup(channelBase, channels) ==
    [channelBase |-> channelBase, channels |-> channels]

\* a clash test whose sums are reduced to an unsigned char
clashesWithWrapped(this, other) ==
    IF this.channels = 0 \/ other.channels = 0
    THEN FALSE
    ELSE \/ /\ this.channelBase > other.channelBase
            /\ this.channelBase < (other.channelBase + other.channels) % UCharRange
         \/ /\ other.channelBase > this.channelBase
            /\ other.channelBase < (this.channelBase + this.channels) % UCharRange
         \/ this.channelBase = other.channelBase

\* a clash test that forgets the case of equal bases
clashesWithNoEqualBase(this, other) ==
    IF this.channels = 0 \/ other.channels = 0
    THEN FALSE
    ELSE \/ /\ this.channelBase > other.channelBase
            /\ this.channelBase < other.channelBase + other.channels
         \/ /\ other.channelBase > this.channelBase
            /\ other.channelBase < this.channelBase + this.channels

\* the operands are promoted to int: the sums are not reduced modulo 256
clashesWith(this, other) ==
    IF this.channels = 0 \/ other.channels = 0
    THEN FALSE
    ELSE \/ /\ this.channelBase > other.channelBase
            /\ this.channelBase < other.channelBase + other.channels
         \/ /\ other.channelBase > this.channelBase
            /\ other.channelBase < this.channelBase + this.channels
         \/ this.channelBase = other.channelBase

---------------------------------------------------------------------------
(* QString: sequences of characters, lower-casing, numbers                 *)

UpperLetters ==
    <<"A", "B", "C", "D", "E", "F", "G", "H", "I", "J", "K", "L", "M",
      "N", "O", "P", "Q", "R", "S", "T", "U", "V", "W", "X", "Y", "Z">>

LowerLetters ==
    <<"a", "b", "c", "d", "e", "f", "g", "h", "i", "j", "k", "l", "m",
      "n", "o", "p", "q", "r", "s", "t", "u", "v", "w", "x", "y", "z">>

DigitChars == <<"0", "1", "2", "3", "4", "5", "6", "7", "8", "9">>

IsUpper(c) == \E i \in 1 .. Len(UpperLetters) : UpperLetters[i] = c

IsLower(c) == \E i \in 1 .. Len(LowerLetters) : LowerLetters[i] = c

IsDigit(c) == \E i \in 1 .. Len(DigitChars) : DigitChars[i] = c

DigitValue(c) == (CHOOSE i \in 1 .. Len(DigitChars) : DigitChars[i] = c) - 1

\* QChar::toLower on the characters of the model
charToLower(c) ==
    IF IsUpper(c)
    THEN LowerLetters[CHOOSE i \in 1 .. Len(UpperLetters) : UpperLetters[i] = c]
    ELSE c

\* QString::toLower
toLower(string) == [i \in 1 .. Len(string) |-> charToLower(string[i])]

RECURSIVE DecimalValue(_)
DecimalValue(string) ==
    IF string = <<>>
    THEN 0
    ELSE 10 * DecimalValue(SubSeq(string, 1, Len(string) - 1))
         + DigitValue(string[Len(string)])

\* QString::toUInt: 0 when the string is no unsigned decimal numeral.  (The
\* strings of the model are short: no numeral exceeds the range of unsigned int.)
toUInt(string) ==
    IF string = <<>> \/ \E i \in 1 .. Len(string) : ~IsDigit(string[i])
    THEN 0
    ELSE DecimalValue(string)

\* QString::number, which setAttribute applies to a numeric value
RECURSIVE number(_)
number(n) ==
    IF n < 10
    THEN <<DigitChars[n + 1]>>
    ELSE Append(number(n \div 10), DigitChars[(n % 10) + 1])

\* the conversion of an unsigned int argument to an unsigned char parameter
toUChar(n) == n % UCharRange

---------------------------------------------------------------------------
(* AudioPath: the static functions on AudioPathType                        *)

getStringFromType(type) ==
    CASE type = "INVALID" -> <<"I", "n", "v", "a", "l", "i", "d">>
      [] type = "MASTER" -> <<"M", "a", "s", "t", "e", "r">>
      [] type = "HEADPHONES" -> <<"H", "e", "a", "d", "p", "h", "o", "n", "e", "s">>
      [] type = "BUS" -> <<"B", "u", "s">>
      [] type = "DECK" -> <<"D", "e", "c", "k">>
      [] type = "VINYLCONTROL" ->
            <<"V", "i", "n", "y", "l", " ", "C", "o", "n", "t", "r", "o", "l">>
      [] type = "MICROPHONE" -> <<"M", "i", "c", "r", "o", "p", "h", "o", "n", "e">>
      [] type = "AUXILLIARY" -> <<"A", "u", "x", "i", "l", "l", "i", "a", "r", "y">>

\* a parser that compares the argument as it is given
getTypeFromStringCaseSensitive(string) ==
    IF string = toLower(getStringFromType("MASTER")) THEN "MASTER"
    ELSE IF string = toLower(getStringFromType("HEADPHONES")) THEN "HEADPHONES"
    ELSE IF string = toLower(getStringFromType("BUS")) THEN "BUS"
    ELSE IF string = toLower(getStringFromType("DECK")) THEN "DECK"
    ELSE IF string = toLower(getStringFromType("VINYLCONTROL")) THEN "VINYLCONTROL"
    ELSE IF string = toLower(getStringFromType("MICROPHONE")) THEN "MICROPHONE"
    ELSE IF string = toLower(getStringFromType("AUXILLIARY")) THEN "AUXILLIARY"
    ELSE "INVALID"

getTypeFromString(string) ==
    LET lowered == toLower(string)
    IN  IF lowered = toLower(getStringFromType("MASTER")) THEN "MASTER"
        ELSE IF lowered = toLower(getStringFromType("HEADPHONES")) THEN "HEADPHONES"
        ELSE IF lowered = toLower(getStringFromType("BUS")) THEN "BUS"
        ELSE IF lowered = toLower(getStringFromType("DECK")) THEN "DECK"
        ELSE IF lowered = toLower(getStringFromType("VINYLCONTROL")) THEN "VINYLCONTROL"
        ELSE IF lowered = toLower(getStringFromType("MICROPHONE")) THEN "MICROPHONE"
        ELSE IF lowered = toLower(getStringFromType("AUXILLIARY")) THEN "AUXILLIARY"
        ELSE "INVALID"

isIndexed(type) == type \in {"BUS", "DECK", "VINYLCONTROL", "AUXILLIARY"}

\* a conversion that takes the last real type for the upper bound
getTypeFromIntWrongBound(n) ==
    IF n < 0 \/ n >= Ordinal("AUXILLIARY")
    THEN "INVALID"
    ELSE AudioPathType[n + 1]

getTypeFromInt(n) ==
    IF n < 0 \/ n >= Ordinal("INVALID")
    THEN "INVALID"
    ELSE AudioPathType[n + 1]

minChannelsForType(type) == IF type = "VINYLCONTROL" THEN 2 ELSE 1

maxChannelsForType(type) == 2

---------------------------------------------------------------------------
(* AudioPath, AudioOutput, AudioInput                                      *)

\* QList::contains
Contains(list, x) == \E i \in 1 .. Len(list) : list[i] = x

AudioOutput_getSupportedTypes == <<"MASTER", "HEADPHONES", "BUS", "DECK">>

AudioInput_getSupportedTypes ==
    (IF vinylControl THEN <<"VINYLCONTROL">> ELSE <<>>)
        \o <<"AUXILLIARY", "MICROPHONE">>

\* a setType that accepts every type
setTypeUnchecked(direction, type) == type

\* AudioOutput::setType and AudioInput::setType: the value m_type receives
setType(direction, type) ==
    IF direction = "output"
    THEN IF Contains(AudioOutput_getSupportedTypes, type) THEN type ELSE "INVALID"
    ELSE IF Contains(AudioInput_getSupportedTypes, type) THEN type ELSE "INVALID"

\* the constructors AudioOutput::AudioOutput and AudioInput::AudioInput: the
\* index is kept when the REQUESTED type is indexed
AudioPath(direction, type, channelBase, channels, index) ==
    [direction |-> direction,
     type |-> setType(direction, type),
     index |-> IF isIndexed(type) THEN index ELSE 0,
     channelGroup |-> ChannelGroup(channelBase, channels)]

AudioOutput(type, channelBase, channels, index) ==
    AudioPath("output", type, channelBase, channels, index)

AudioInput(type, channelBase, channels, index) ==
    AudioPath("input", type, channelBase, channels, index)

\* an equality that also compares the channel groups
pathEqualsWithChannels(this, other) ==
    /\ this.type = other.type
    /\ this.index = other.index
    /\ this.channelGroup = other.channelGroup

\* AudioPath::operator==
pathEquals(this, other) ==
    this.type = other.type /\ this.index = other.index

\* AudioPath::getHash: 0 | (m_type << 8) | m_index, with m_index < 256
getHash(this) == Ordinal(this.type) * UCharRange + this.index

channelsClash(this, other) == clashesWith(this.channelGroup, other.channelGroup)

\* QDomElement::attribute(name, defValue)
attribute(xml, name, defValue) ==
    IF name \in DOMAIN xml.attrs THEN xml.attrs[name] ELSE defValue

\* AudioOutput::toXML and AudioInput::toXML
toXML(this) ==
    [tag |-> this.direction,
     attrs |-> [type |-> getStringFromType(this.type),
                index |-> number(this.index),
                channel |-> number(this.channelGroup.channelBase),
                channel_count |-> number(this.channelGroup.channels)]]

\* a fromXML that migrates every legacy record to stereo
fromXMLAlwaysStereo(direction, xml) ==
    LET type == getTypeFromString(attribute(xml, "type", <<>>))
        index == toUInt(attribute(xml, "index", <<"0">>))
        channel == toUInt(attribute(xml, "channel", <<"0">>))
        read == toUInt(attribute(xml, "channel_count", <<"0">>))
        channels == IF read = 0 THEN 2 ELSE read
    IN  AudioPath(direction, type, toUChar(channel), toUChar(channels), toUChar(index))

\* AudioOutput::fromXML and AudioInput::fromXML: the zero test is on the
\* unsigned int, the constructor's parameters are unsigned char
fromXML(direction, xml) ==
    LET type == getTypeFromString(attribute(xml, "type", <<>>))
        index == toUInt(attribute(xml, "index", <<"0">>))
        channel == toUInt(attribute(xml, "channel", <<"0">>))
        read == toUInt(attribute(xml, "channel_count", <<"0">>))
        channels == IF read = 0
                    THEN (IF type = "MICROPHONE" THEN 1 ELSE 2)
                    ELSE read
    IN  AudioPath(direction, type, toUChar(channel), toUChar(channels), toUChar(index))

---------------------------------------------------------------------------
(* Values of the variables a specification does not use                    *)

NoGroup == ChannelGroup(0, 0)

NoRequest ==
    [direction |-> "output", type |-> "INVALID", channelBase |-> 0,
     channels |-> 0, index |-> 0]

NoPath ==
    [direction |-> "output", type |-> "INVALID", index |-> 0,
     channelGroup |-> NoGroup]

NoElement == [tag |-> "output", attrs |-> [name \in {} |-> <<>>]]

groupVars == <<groupA, groupB, clashAB, clashBA>>

pathVars == <<request, path, element, loaded>>

equalsVars == <<requestB, pathB, equalResult, hashA, hashB>>

typeVars == <<typeString, typeFromString, typeInt, typeFromInt>>

IdleGroup ==
    groupA = NoGroup /\ groupB = NoGroup /\ clashAB = FALSE /\ clashBA = FALSE

IdleConfig == config = EmptyBag

IdlePath ==
    request = NoRequest /\ path = NoPath /\ element = NoElement /\ loaded = NoPath

IdleEquals ==
    /\ requestB = NoRequest
    /\ pathB = NoPath
    /\ equalResult = FALSE
    /\ hashA = 0
    /\ hashB = 0

IdleType ==
    /\ typeString = <<>>
    /\ typeFromString = "INVALID"
    /\ typeInt = 0
    /\ typeFromInt = "INVALID"

---------------------------------------------------------------------------
(* SpecGroup: two ChannelGroups and the clash test in both directions      *)

Groups == {ChannelGroup(b, c) : b \in ByteSamples, c \in ByteSamples}

\* the receiver's base runs over every unsigned char
ReceiverGroups == {ChannelGroup(b, c) : b \in 0 .. (UCharRange - 1), c \in ByteSamples}

InitGroup ==
    /\ pc = "start"
    /\ vinylControl = FALSE
    /\ groupA \in ReceiverGroups
    /\ groupB \in Groups
    /\ clashAB = FALSE
    /\ clashBA = FALSE
    /\ IdleConfig /\ IdlePath /\ IdleEquals /\ IdleType

ClashesWith ==
    /\ pc = "start"
    /\ clashAB' = clashesWith(groupA, groupB)
    /\ clashBA' = clashesWith(groupB, groupA)
    /\ pc' = "done"
    /\ UNCHANGED <<vinylControl, groupA, groupB, config, pathVars, equalsVars, typeVars>>

NextGroup == ClashesWith

SpecGroup == InitGroup /\ [][NextGroup]_vars

---------------------------------------------------------------------------
(* SpecConfig: a caller that adds a route only when it clashes with no     *)
(* route of the configuration, and removes routes                          *)

ConfigRequests ==
    {[direction |-> "output", type |-> t, channelBase |-> b, channels |-> c, index |-> 0] :
        t \in {"MASTER", "HEADPHONES"},
        b \in (0 .. MaxBase) \cup {UCharRange - 1},
        c \in (0 .. MaxCount) \cup {UCharRange - 1}}

Construct(r) == AudioPath(r.direction, r.type, r.channelBase, r.channels, r.index)

InitConfig ==
    /\ pc = "config"
    /\ vinylControl = FALSE
    /\ config = EmptyBag
    /\ IdleGroup /\ IdlePath /\ IdleEquals /\ IdleType

AddRoute ==
    /\ BagCardinality(config) < MaxRoutes
    /\ \E r \in ConfigRequests :
         /\ \A other \in BagToSet(config) : ~channelsClash(Construct(r), other)
         /\ config' = config (+) SetToBag({Construct(r)})
    /\ UNCHANGED <<pc, vinylControl, groupVars, pathVars, equalsVars, typeVars>>

RemoveRoute ==
    /\ \E route \in BagToSet(config) : config' = config (-) SetToBag({route})
    /\ UNCHANGED <<pc, vinylControl, groupVars, pathVars, equalsVars, typeVars>>

NextConfig == AddRoute \/ RemoveRoute

SpecConfig == InitConfig /\ [][NextConfig]_vars

---------------------------------------------------------------------------
(* SpecPath: construct a path, write it to an element, read it back        *)

Requests ==
    {[direction |-> d, type |-> t, channelBase |-> b, channels |-> c, index |-> i] :
        d \in {"output", "input"},
        t \in Types,
        b \in ByteSamples,
        c \in (0 .. MaxCount) \cup {UCharRange - 1},
        i \in (0 .. MaxIndex) \cup {UCharRange - 1}}

InitPath ==
    /\ pc = "start"
    /\ vinylControl \in BOOLEAN
    /\ request \in Requests
    /\ path = NoPath
    /\ element = NoElement
    /\ loaded = NoPath
    /\ IdleGroup /\ IdleConfig /\ IdleEquals /\ IdleType

ConstructPath ==
    /\ pc = "start"
    /\ path' = Construct(request)
    /\ pc' = "constructed"
    /\ UNCHANGED <<vinylControl, groupVars, config, request, element, loaded,
                   equalsVars, typeVars>>

ToXML ==
    /\ pc = "constructed"
    /\ element' = toXML(path)
    /\ pc' = "saved"
    /\ UNCHANGED <<vinylControl, groupVars, config, request, path, loaded,
                   equalsVars, typeVars>>

\* the caller picks AudioOutput::fromXML or AudioInput::fromXML by the tag
FromXML ==
    /\ pc = "saved"
    /\ loaded' = fromXML(element.tag, element)
    /\ pc' = "loaded"
    /\ UNCHANGED <<vinylControl, groupVars, config, request, path, element,
                   equalsVars, typeVars>>

NextPath == ConstructPath \/ ToXML \/ FromXML

SpecPath == InitPath /\ [][NextPath]_vars

---------------------------------------------------------------------------
(* SpecLoad: read an element that a configuration file supplied            *)

\* the numbers a file may give: bytes, and numbers above the range of a byte
NumberSamples ==
    ByteSamples
        \cup {UCharRange * k + j : k \in 1 .. MaxWrap, j \in 0 .. 1}

\* attribute texts that are no unsigned numeral
JunkSamples == {<<>>, <<"x">>, <<"-", "1">>, <<"2", "x">>}

TypeTextSamples ==
    {getStringFromType(t) : t \in Types}
        \cup {toLower(getStringFromType("MICROPHONE")), <<"M", "i", "c">>}

\* marks an attribute the element does not have
Absent == <<"(absent)">>

\* the element with the given tag and the attributes that are not Absent
Element(tag, type, index, channel, channelCount) ==
    LET text == [type |-> type, index |-> index, channel |-> channel,
                 channel_count |-> channelCount]
    IN  [tag |-> tag,
         attrs |-> [name \in {n \in DOMAIN text : text[n] # Absent} |-> text[name]]]

LoadElements ==
    {Element(d, t, i, c, n) :
        d \in {"output", "input"},
        t \in TypeTextSamples \cup {Absent},
        i \in {Absent, number(0), number(1), number(UCharRange + 1), <<"x">>},
        c \in {Absent, number(0), number(MaxLow), number(UCharRange)},
        n \in {Absent} \cup JunkSamples \cup {number(k) : k \in NumberSamples}}

InitLoad ==
    /\ pc = "saved"
    /\ vinylControl \in BOOLEAN
    /\ request = NoRequest
    /\ path = NoPath
    /\ element \in LoadElements
    /\ loaded = NoPath
    /\ IdleGroup /\ IdleConfig /\ IdleEquals /\ IdleType

NextLoad == FromXML

SpecLoad == InitLoad /\ [][NextLoad]_vars

---------------------------------------------------------------------------
(* SpecEquals: two paths of one class, compared and hashed                 *)

EqualsRequests(d) ==
    {[direction |-> d, type |-> t, channelBase |-> b, channels |-> c, index |-> i] :
        t \in Types,
        b \in {0, 2},
        c \in {1, 2},
        i \in 0 .. MaxIndex}

InitEquals ==
    /\ pc = "start"
    /\ vinylControl \in BOOLEAN
    /\ \E d \in {"output", "input"} :
         /\ request \in EqualsRequests(d)
         /\ requestB \in EqualsRequests(d)
    /\ path = NoPath
    /\ pathB = NoPath
    /\ element = NoElement
    /\ loaded = NoPath
    /\ equalResult = FALSE
    /\ hashA = 0
    /\ hashB = 0
    /\ IdleGroup /\ IdleConfig /\ IdleType

ConstructPair ==
    /\ pc = "start"
    /\ path' = Construct(request)
    /\ pathB' = Construct(requestB)
    /\ pc' = "constructed"
    /\ UNCHANGED <<vinylControl, groupVars, config, request, element, loaded,
                   requestB, equalResult, hashA, hashB, typeVars>>

Compare ==
    /\ pc = "constructed"
    /\ equalResult' = pathEquals(path, pathB)
    /\ hashA' = getHash(path)
    /\ hashB' = getHash(pathB)
    /\ pc' = "compared"
    /\ UNCHANGED <<vinylControl, groupVars, config, pathVars, requestB, pathB, typeVars>>

NextEquals == ConstructPair \/ Compare

SpecEquals == InitEquals /\ [][NextEquals]_vars

---------------------------------------------------------------------------
(* SpecType: getTypeFromString and getTypeFromInt                          *)

charToUpper(c) ==
    IF IsLower(c)
    THEN UpperLetters[CHOOSE i \in 1 .. Len(LowerLetters) : LowerLetters[i] = c]
    ELSE c

\* the string with the case of its k-th character changed
ToggleCase(string, k) ==
    [i \in 1 .. Len(string) |->
        IF i # k THEN string[i]
        ELSE IF IsLower(string[i]) THEN charToUpper(string[i])
        ELSE charToLower(string[i])]

TypeStringSamples ==
    LET names == {getStringFromType(t) : t \in Types}
    IN  names
        \cup {[i \in 1 .. Len(n) |-> charToUpper(n[i])] : n \in names}
        \cup {[i \in 1 .. Len(n) |-> charToLower(n[i])] : n \in names}
        \cup {ToggleCase(n, k) : n \in names, k \in 1 .. MaxToggle}
        \cup {Append(n, "s") : n \in names}
        \cup {SubSeq(n, 1, Len(n) - 1) : n \in names}
        \cup {SubSeq(n, 2, Len(n)) : n \in names}
        \cup {<<>>}

InitType ==
    /\ pc = "start"
    /\ vinylControl = FALSE
    /\ typeString \in TypeStringSamples
    /\ typeFromString = "INVALID"
    /\ typeInt \in (0 - MaxOrdinalSlack) .. (Len(AudioPathType) - 1 + MaxOrdinalSlack)
    /\ typeFromInt = "INVALID"
    /\ IdleGroup /\ IdleConfig /\ IdlePath /\ IdleEquals

GetTypeFromString ==
    /\ pc = "start"
    /\ typeFromString' = getTypeFromString(typeString)
    /\ pc' = "parsed"
    /\ UNCHANGED <<vinylControl, groupVars, config, pathVars, equalsVars,
                   typeString, typeInt, typeFromInt>>

GetTypeFromInt ==
    /\ pc = "parsed"
    /\ typeFromInt' = getTypeFromInt(typeInt)
    /\ pc' = "done"
    /\ UNCHANGED <<vinylControl, groupVars, config, pathVars, equalsVars,
                   typeString, typeFromString, typeInt>>

NextType == GetTypeFromString \/ GetTypeFromInt

SpecType == InitType /\ [][NextType]_vars

---------------------------------------------------------------------------
(* Properties                                                              *)

\* the channel indexes of the half-open range [channelBase, channelBase + channels)
ChannelsOf(group) == group.channelBase .. (group.channelBase + group.channels - 1)

Overlap(a, b) == ChannelsOf(a) \cap ChannelsOf(b) # {}

\* C1: clashesWith is true exactly when both groups have channels and their
\* half-open ranges, taken without reduction modulo 256, share a channel
\* index; it is false when either count is 0, true for equal bases with
\* both counts positive, false for ranges that abut, and symmetric.
C1_ClashIffRangesShareAChannel ==
    pc = "done" =>
        /\ clashAB = (groupA.channels > 0 /\ groupB.channels > 0 /\ Overlap(groupA, groupB))
        /\ clashBA = clashAB
        /\ (groupA.channels = 0 \/ groupB.channels = 0) => ~clashAB
        /\ (groupA = groupB /\ groupA.channels = 0) => ~clashAB
        /\ (/\ groupA.channels > 0
            /\ groupB.channels > 0
            /\ groupA.channelBase = groupB.channelBase) => clashAB
        /\ groupB.channelBase = groupA.channelBase + groupA.channels => ~clashAB

\* two groups that clash only because the sum of the first is not reduced
C1_Witness ==
    /\ pc = "done"
    /\ clashAB
    /\ groupB.channelBase > groupA.channelBase
    /\ groupA.channelBase + groupA.channels > UCharRange

\* C2: when routes are added only if they clash with no route of the
\* configuration, no channel index lies in the ranges of two routes of the
\* configuration, whatever the order of additions and removals.
C2_NoChannelClaimedTwice ==
    \A a, b \in BagToSet(config) :
        (a # b \/ CopiesIn(a, config) > 1)
            => ChannelsOf(a.channelGroup) \cap ChannelsOf(b.channelGroup) = {}

\* a full configuration of routes that claim channels, two of which abut
C2_Witness ==
    /\ BagCardinality(config) >= 3
    /\ \A a \in BagToSet(config) : a.channelGroup.channels > 0
    /\ \E a, b \in BagToSet(config) :
          b.channelGroup.channelBase = a.channelGroup.channelBase + a.channelGroup.channels

OutputTypes == {"MASTER", "HEADPHONES", "BUS", "DECK"}

InputTypes ==
    {"AUXILLIARY", "MICROPHONE"} \cup (IF vinylControl THEN {"VINYLCONTROL"} ELSE {})

SupportedTypes(direction) == IF direction = "output" THEN OutputTypes ELSE InputTypes

IndexableTypes == {"BUS", "DECK", "VINYLCONTROL", "AUXILLIARY"}

\* C3: a constructed route has the requested type when its direction
\* supports that type and INVALID otherwise, so its type is INVALID or a
\* supported type; the same holds of a route read from an element.
C3_TypeIsRequestedOrInvalid ==
    /\ pc \in {"constructed", "saved", "loaded"} =>
          /\ path.type = IF request.type \in SupportedTypes(request.direction)
                         THEN request.type
                         ELSE "INVALID"
          /\ path.type \in {"INVALID"} \cup SupportedTypes(path.direction)
    /\ pc = "loaded" => loaded.type \in {"INVALID"} \cup SupportedTypes(loaded.direction)

\* an input route requested as MASTER
C3_Witness ==
    /\ pc = "constructed"
    /\ request.direction = "input"
    /\ request.type = "MASTER"
    /\ path.type = "INVALID"

\* C4: the stored index is the requested index when the resulting type of
\* the route is indexable and 0 otherwise, for constructed and for read routes.
C4_IndexZeroUnlessIndexable ==
    /\ pc \in {"constructed", "saved", "loaded"} =>
          path.index = IF path.type \in IndexableTypes THEN request.index ELSE 0
    /\ pc = "loaded" => (loaded.type \notin IndexableTypes => loaded.index = 0)

C6_IdentityIsTypeAndIndex ==
    pc = "compared" =>
        /\ equalResult = (path.type = pathB.type /\ path.index = pathB.index)
        /\ (path.type = pathB.type /\ path.index = pathB.index) => hashA = hashB
        /\ equalResult => hashA = hashB

\* equal routes on different channels
C6_Witness ==
    /\ pc = "compared"
    /\ equalResult
    /\ hashA = hashB
    /\ path.type = "DECK"
    /\ path.index > 0
    /\ path.channelGroup # pathB.channelGroup

\* two strings of one length whose characters differ at most in case
SameIgnoringCase(a, b) ==
    /\ Len(a) = Len(b)
    /\ \A i \in 1 .. Len(a) :
          \/ a[i] = b[i]
          \/ \E k \in 1 .. Len(UpperLetters) :
                {a[i], b[i]} = {UpperLetters[k], LowerLetters[k]}

RealTypes == Types \ {"INVALID"}

\* C7: getTypeFromString returns t for the lower-cased name of every type t
\* but INVALID and for every string that differs from the name of t only in
\* case, and INVALID for every other string, the name of INVALID included.
C7_ParseInvertsDisplayName ==
    pc \in {"parsed", "done"} =>
        /\ \A t \in RealTypes :
              typeString = toLower(getStringFromType(t)) => typeFromString = t
        /\ \A t \in RealTypes :
              SameIgnoringCase(typeString, getStringFromType(t)) <=> typeFromString = t
        /\ (\A t \in RealTypes : ~SameIgnoringCase(typeString, getStringFromType(t)))
              => typeFromString = "INVALID"

\* a name in mixed case that is parsed to its type
C7_Witness ==
    /\ pc = "parsed"
    /\ typeString # getStringFromType("VINYLCONTROL")
    /\ typeString # toLower(getStringFromType("VINYLCONTROL"))
    /\ typeFromString = "VINYLCONTROL"

\* the enumeration order as the claim states it
ClaimedOrder ==
    <<"INVALID", "MASTER", "HEADPHONES", "BUS", "DECK", "VINYLCONTROL",
      "MICROPHONE", "AUXILLIARY">>

\* C8 as stated: under the order INVALID = 0, MASTER, HEADPHONES, BUS, DECK,
\* VINYLCONTROL, MICROPHONE, AUXILIARY, getTypeFromInt returns the type
\* whose ordinal is n for every n that is the ordinal of a type but INVALID,
\* and INVALID for every other n.
C8_FromOrdinalClaimedOrder ==
    pc = "done" =>
        typeFromInt = IF typeInt \in 1 .. (Len(ClaimedOrder) - 1)
                      THEN ClaimedOrder[typeInt + 1]
                      ELSE "INVALID"

\* C8 amended: under the order MASTER = 0, HEADPHONES, BUS, DECK,
\* VINYLCONTROL, MICROPHONE, AUXILIARY, INVALID = 7, getTypeFromInt returns
\* the type whose ordinal is n for every n in 0..6 and INVALID for every
\* other n, -1 and the ordinal of INVALID included.
C8_FromOrdinalInvalidLast ==
    pc = "done" =>
        /\ typeFromInt =
              CASE typeInt = 0 -> "MASTER"
                [] typeInt = 1 -> "HEADPHONES"
                [] typeInt = 2 -> "BUS"
                [] typeInt = 3 -> "DECK"
                [] typeInt = 4 -> "VINYLCONTROL"
                [] typeInt = 5 -> "MICROPHONE"
                [] typeInt = 6 -> "AUXILLIARY"
                [] OTHER -> "INVALID"
        /\ typeFromInt # "INVALID" => Ordinal(typeFromInt) = typeInt

\* the largest ordinal of a type that is not INVALID
C8_Witness ==
    /\ pc = "done"
    /\ typeInt = 6
    /\ typeFromInt = "AUXILLIARY"

\* a text that is an unsigned decimal numeral
IsNumeral(text) ==
    /\ text # <<>>
    /\ \A i \in 1 .. Len(text) :
          text[i] \in {"0", "1", "2", "3", "4", "5", "6", "7", "8", "9"}

HasAttribute(name) == name \in DOMAIN element.attrs

\* the element's channel_count is missing, no numeral, or 0
LegacyCount ==
    \/ ~HasAttribute("channel_count")
    \/ ~IsNumeral(element.attrs["channel_count"])
    \/ element.attrs["channel_count"] = <<"0">>

\* the type that the element's type attribute names
ElementType ==
    IF HasAttribute("type") /\ \E t \in RealTypes :
            SameIgnoringCase(element.attrs["type"], getStringFromType(t))
    THEN CHOOSE t \in RealTypes :
            SameIgnoringCase(element.attrs["type"], getStringFromType(t))
    ELSE "INVALID"

\* C9: a route read from an element whose channel_count is missing,
\* unparseable or 0 has 1 channel when the element's type is MICROPHONE and
\* 2 otherwise, a count within the minimum and maximum of that type; a
\* channel_count in 1..255 is kept.
C9_LegacyCountMigrated ==
    pc = "loaded" =>
        /\ LegacyCount =>
              /\ loaded.channelGroup.channels =
                    IF ElementType = "MICROPHONE" THEN 1 ELSE 2
              /\ loaded.channelGroup.channels >= minChannelsForType(ElementType)
              /\ loaded.channelGroup.channels <= maxChannelsForType(ElementType)
        /\ \A n \in 1 .. (UCharRange - 1) :
              (HasAttribute("channel_count") /\ element.attrs["channel_count"] = number(n))
                 => loaded.channelGroup.channels = n

\* a microphone element without a channel_count
C9_Witness ==
    /\ pc = "loaded"
    /\ ~HasAttribute("channel_count")
    /\ ElementType = "MICROPHONE"
    /\ loaded.channelGroup.channels = 1

\* C10: a route read from an element whose index, channel and
\* channel_count are non-negative integers has at least one channel.
C10_LoadedRouteHasChannels ==
    (/\ pc = "loaded"
     /\ \A name \in {"index", "channel", "channel_count"} :
           HasAttribute(name) /\ IsNumeral(element.attrs[name]))
        => loaded.channelGroup.channels >= 1

===========================================================================
